---- MODULE Spec2Model ----
(***************************************************************************)
(* State-machine model of backend/app_fastapi.py: the rate-limit           *)
(* middleware, token authentication, and the register / login / chat /     *)
(* history handlers, run by one asyncio event loop.                        *)
(*                                                                         *)
(* A request is a coroutine.  The code between two awaits runs without     *)
(* interruption, so each action below is one such stretch of a handler;    *)
(* other requests and the clock may move between two actions of the same   *)
(* request.  RateLimiter.check contains no await and is one stretch.       *)
(*                                                                         *)
(* Time is counted in ticks, TicksPerSecond to the second, so that the     *)
(* whole-second truncation of the token's exp claim is visible.            *)
(* The document store answers every query; only insert_one into            *)
(* conversations may fail (the case the handler's try/except is for).      *)
(* The token library is PyJWT 2.x: encode returns a str, which is how the  *)
(* login handler uses it.                                                  *)
(***************************************************************************)
EXTENDS Integers, Sequences, FiniteSets, TLC

\* ------------------------------------------------------------ constants

\* RateLimiter.__init__(requests_per_minute=60); rate_limiter = RateLimiter()
requests_per_minute == 60
\* the literal of `current_time - t < 60`
WindowSeconds == 60
ACCESS_TOKEN_EXPIRE_MINUTES == 30
\* .limit(50) of get_history
HistoryLimit == 50
SECRET_KEY == "your_secret_key"

\* --------------------------------------------------------------- bounds

\* clock resolution of the model
TicksPerSecond == 2
\* number of requests one behaviour handles
MaxReqs == 3
\* the same, where the behaviour starts from a state earlier requests left
MaxRateReqs == 2
MaxAuthReqs == 2
\* the largest limit a RateLimiter is constructed with, where the limit varies
MaxLimit == 2

Reqs == 1..MaxReqs

Seconds(s) == s * TicksPerSecond
Minutes(m) == Seconds(60 * m)

\* ---------------------------------------------------------------- state

VARIABLES
    now,            \* the wall clock, in ticks
    requests,       \* rate_limiter.requests: client_ip -> list of times
    limit,          \* rate_limiter.requests_per_minute
    users,          \* db.users, in insertion order
    conversations,  \* db.conversations, in insertion order
    model,          \* the module-level model handle: "pipeline" or "None"
    pc,             \* where each request's coroutine stands
    req,            \* what each request carries
    local,          \* each coroutine's local variables
    resp,           \* each request's response
    minted,         \* the tokens login has handed out, with their issue time
    admitted,       \* history: per client, the times at which check said True
    invoked,        \* history: the requests that called the model
    userBy,         \* history: the request that inserted each user record
    convBy          \* history: the request that inserted each conversation

vars == <<now, requests, limit, users, conversations, model, pc, req, local,
          resp, minted, admitted, invoked, userBy, convBy>>

\* -------------------------------------------------------------- values

NoSub == "<None>"
NoExp == -1

NoToken == [wellformed |-> FALSE, key |-> "", sub |-> NoSub, exp |-> NoExp]

\* at and after are history: the instant the request arrived at, and the
\* requests that had been answered by then
NoReq ==
    [route |-> "", client |-> "", username |-> "", email |-> "",
     password |-> "", token |-> NoToken, message |-> "",
     at |-> 0, after |-> {}]

RegisterReq(c, u, e, p) ==
    [NoReq EXCEPT !.route = "register", !.client = c, !.username = u,
                  !.email = e, !.password = p]

LoginReq(c, u, p) ==
    [NoReq EXCEPT !.route = "login", !.client = c, !.username = u,
                  !.password = p]

ChatReq(c, tok, m) ==
    [NoReq EXCEPT !.route = "chat", !.client = c, !.token = tok,
                  !.message = m]

HistoryReq(c, tok) ==
    [NoReq EXCEPT !.route = "history", !.client = c, !.token = tok]

\* at is history: the instant get_current_user decoded the token at
NoLocal ==
    [username |-> NoSub, user_id |-> 0, bot_response |-> "", timestamp |-> 0,
     at |-> 0]

NoResp ==
    [status |-> 0, detail |-> "", access_token |-> NoToken,
     message |-> "", history |-> <<>>]

HTTPException(status_code, detail) ==
    [NoResp EXCEPT !.status = status_code, !.detail = detail]

\* ------------------------------------------------------- RateLimiter

\* the list comprehension with its filter lost: nothing is ever discarded
PruneMutKeepAll(request_times, current_time) == request_times

\* [t for t in request_times if current_time - t < 60]
Prune(request_times, current_time) ==
    SelectSeq(request_times,
              LAMBDA t : current_time - t < Seconds(WindowSeconds))

\* RateLimiter.check: the answer and the table it leaves behind
checkMutOffByOne(table, client_ip, current_time) ==
    IF client_ip \in DOMAIN table
    THEN LET request_times == Prune(table[client_ip], current_time)
         IN  IF Len(request_times) > limit
             THEN [ok |-> FALSE, table |-> table]
             ELSE [ok |-> TRUE,
                   table |-> [table EXCEPT ![client_ip] =
                                 Append(request_times, current_time)]]
    ELSE [ok |-> TRUE,
          table |-> [c \in DOMAIN table \cup {client_ip} |->
                        IF c = client_ip THEN <<current_time>> ELSE table[c]]]

\* check whose write is lost, as when another call's list replaces it
checkMutLostWrite(table, client_ip, current_time) ==
    IF client_ip \in DOMAIN table
    THEN LET request_times == Prune(table[client_ip], current_time)
         IN  IF Len(request_times) >= limit
             THEN [ok |-> FALSE, table |-> table]
             ELSE [ok |-> TRUE, table |-> table]
    ELSE [ok |-> TRUE,
          table |-> [c \in DOMAIN table \cup {client_ip} |->
                        IF c = client_ip THEN <<current_time>> ELSE table[c]]]

\* check that records the instant of a call it turns away
checkMutRecordsDenied(table, client_ip, current_time) ==
    IF client_ip \in DOMAIN table
    THEN LET request_times == Prune(table[client_ip], current_time)
         IN  [ok |-> Len(request_times) < limit,
              table |-> [table EXCEPT ![client_ip] =
                            Append(request_times, current_time)]]
    ELSE [ok |-> TRUE,
          table |-> [c \in DOMAIN table \cup {client_ip} |->
                        IF c = client_ip THEN <<current_time>> ELSE table[c]]]

check(table, client_ip, current_time) ==
    IF client_ip \in DOMAIN table
    THEN LET request_times == Prune(table[client_ip], current_time)
         IN  IF Len(request_times) >= limit
             THEN [ok |-> FALSE, table |-> table]
             ELSE [ok |-> TRUE,
                   table |-> [table EXCEPT ![client_ip] =
                                 Append(request_times, current_time)]]
    ELSE [ok |-> TRUE,
          table |-> [c \in DOMAIN table \cup {client_ip} |->
                        IF c = client_ip THEN <<current_time>> ELSE table[c]]]

\* the first coroutine stretch of the handler the router picks
FirstStep(route) ==
    CASE route = "register" -> "register_find"
      [] route = "login"    -> "login"
      [] route = "chat"     -> "authenticate"
      [] route = "history"  -> "authenticate"

\* the middleware with the raise lost: the 429 is noted, call_next runs
middlewareMutNoRaise(r, q) ==
    /\ pc[r] = "new"
    /\ \A s \in Reqs : s < r => pc[s] # "new"
    /\ LET res == check(requests, q.client, now)
       IN  /\ requests' = res.table
           /\ req' = [req EXCEPT ![r] =
                         [q EXCEPT !.at = now,
                                   !.after = {s \in Reqs : pc[s] = "done"}]]
           /\ pc' = [pc EXCEPT ![r] = FirstStep(q.route)]
           /\ resp' = IF res.ok THEN resp
                      ELSE [resp EXCEPT ![r] =
                               HTTPException(429, "Too many requests")]
           /\ admitted' = IF res.ok
                          THEN [c \in DOMAIN admitted \cup {q.client} |->
                                  IF c # q.client THEN admitted[c]
                                  ELSE IF c \in DOMAIN admitted
                                       THEN Append(admitted[c], now)
                                       ELSE <<now>>]
                          ELSE admitted
    /\ UNCHANGED <<limit, now, users, conversations, model, local, minted, invoked,
                   userBy, convBy>>

\* rate_limit_middleware, up to call_next: request r arrives carrying q
rate_limit_middleware(r, q) ==
    /\ pc[r] = "new"
    /\ \A s \in Reqs : s < r => pc[s] # "new"
    /\ LET client_ip == q.client
           res == check(requests, client_ip, now)
       IN  /\ requests' = res.table
           /\ req' = [req EXCEPT ![r] =
                         [q EXCEPT !.at = now,
                                   !.after = {s \in Reqs : pc[s] = "done"}]]
           /\ IF res.ok
              THEN /\ pc' = [pc EXCEPT ![r] = FirstStep(q.route)]
                   /\ resp' = resp
                   /\ admitted' =
                        [c \in DOMAIN admitted \cup {client_ip} |->
                            IF c = client_ip
                            THEN (IF c \in DOMAIN admitted
                                  THEN Append(admitted[c], now)
                                  ELSE <<now>>)
                            ELSE admitted[c]]
              ELSE /\ pc' = [pc EXCEPT ![r] = "done"]
                   /\ resp' = [resp EXCEPT ![r] =
                                  HTTPException(429, "Too many requests")]
                   /\ admitted' = admitted
    /\ UNCHANGED <<limit, now, users, conversations, model, local, minted, invoked,
                   userBy, convBy>>

\* ------------------------------------------------------------- tokens

\* jwt.encode(payload, SECRET_KEY, algorithm=ALGORITHM): a datetime exp is
\* written as whole seconds since the epoch (timegm of its utctimetuple)
jwt_encode(sub, expires) ==
    [wellformed |-> TRUE, key |-> SECRET_KEY, sub |-> sub,
     exp |-> expires \div TicksPerSecond]

\* jwt.decode with the expiry left unverified
jwt_decodeMutNoExpiry(token, t) ==
    IF ~token.wellformed
    THEN [error |-> "DecodeError", sub |-> NoSub]
    ELSE IF token.key # SECRET_KEY
    THEN [error |-> "InvalidSignatureError", sub |-> NoSub]
    ELSE [error |-> "", sub |-> token.sub]

\* jwt.decode that still takes a token at the very second it expires
jwt_decodeMutLate(token, t) ==
    IF ~token.wellformed
    THEN [error |-> "DecodeError", sub |-> NoSub]
    ELSE IF token.key # SECRET_KEY
    THEN [error |-> "InvalidSignatureError", sub |-> NoSub]
    ELSE IF token.exp # NoExp /\ Seconds(token.exp) < t
    THEN [error |-> "ExpiredSignatureError", sub |-> NoSub]
    ELSE [error |-> "", sub |-> token.sub]

\* jwt.decode(token, SECRET_KEY, algorithms=[ALGORITHM]) at time t: the
\* payload's sub, or the PyJWTError raised.  The token is parsed, then its
\* signature verified, then exp compared with the clock (exp <= now fails).
jwt_decode(token, t) ==
    IF ~token.wellformed
    THEN [error |-> "DecodeError", sub |-> NoSub]
    ELSE IF token.key # SECRET_KEY
    THEN [error |-> "InvalidSignatureError", sub |-> NoSub]
    ELSE IF token.exp # NoExp /\ Seconds(token.exp) <= t
    THEN [error |-> "ExpiredSignatureError", sub |-> NoSub]
    ELSE [error |-> "", sub |-> token.sub]

credentials_exception == HTTPException(401, "Could not validate credentials")

\* db.users.find_one({"username": username}) may return any matching record
Matching(username) == {i \in 1..Len(users) : users[i].username = username}

Finish(r, response) ==
    /\ pc' = [pc EXCEPT ![r] = "done"]
    /\ resp' = [resp EXCEPT ![r] = response]

\* get_current_user that gives the slot back when it refuses the token
get_current_user_decodeMutRefund(r) ==
    /\ pc[r] = "authenticate"
    /\ LET payload == jwt_decode(req[r].token, now)
           times == requests[req[r].client]
       IN  IF payload.error # "" \/ payload.sub = NoSub
           THEN /\ Finish(r, credentials_exception)
                /\ local' = [local EXCEPT ![r].at = now]
                /\ requests' = [requests EXCEPT ![req[r].client] =
                                   SelectSeq(times,
                                             LAMBDA t : t # req[r].at)]
           ELSE /\ pc' = [pc EXCEPT ![r] = "resolve"]
                /\ local' = [local EXCEPT ![r].username = payload.sub,
                                          ![r].at = now]
                /\ resp' = resp
                /\ requests' = requests
    /\ UNCHANGED <<limit, now, users, conversations, model, req, minted,
                   admitted, invoked, userBy, convBy>>

\* get_current_user up to its await: decode the token, read the subject
get_current_user_decode(r) ==
    /\ pc[r] = "authenticate"
    /\ LET payload == jwt_decode(req[r].token, now)
       IN  IF payload.error # "" \/ payload.sub = NoSub
           THEN /\ Finish(r, credentials_exception)
                /\ local' = [local EXCEPT ![r].at = now]
           ELSE /\ pc' = [pc EXCEPT ![r] = "resolve"]
                /\ local' = [local EXCEPT ![r].username = payload.sub,
                                          ![r].at = now]
                /\ resp' = resp
    /\ UNCHANGED <<limit, now, requests, users, conversations, model, req, minted,
                   admitted, invoked, userBy, convBy>>

\* get_current_user from find_one on: the user record, or 401
get_current_user_find(r) ==
    /\ pc[r] = "resolve"
    /\ IF Matching(local[r].username) = {}
       THEN /\ Finish(r, credentials_exception)
            /\ local' = local
       ELSE \E i \in Matching(local[r].username) :
            /\ pc' = [pc EXCEPT ![r] = req[r].route]
            /\ local' = [local EXCEPT ![r].user_id = users[i]._id]
            /\ resp' = resp
    /\ UNCHANGED <<limit, now, requests, users, conversations, model, req, minted,
                   admitted, invoked, userBy, convBy>>

\* ---------------------------------------------------------------- chat

\* what the text-generation pipeline may return for a prompt
Generated == {"reply"}

\* chat without the `if not model` test: calling None raises inside the try
chat_generateMutNoModelTest(r) ==
    /\ pc[r] = "chat"
    /\ invoked' = invoked \cup {r}
    /\ \/ /\ Finish(r, HTTPException(500, "generation failed"))
          /\ local' = local
       \/ /\ model # "None"
          /\ \E text \in Generated :
             /\ pc' = [pc EXCEPT ![r] = "chat_insert"]
             /\ local' = [local EXCEPT ![r].bot_response = text,
                                       ![r].timestamp = now]
             /\ resp' = resp
    /\ UNCHANGED <<limit, now, requests, users, conversations, model, req, minted,
                   admitted, userBy, convBy>>

\* chat, up to the await of insert_one: the model check, the generation
\* (which may raise) and the document with its timestamp
chat_generate(r) ==
    /\ pc[r] = "chat"
    /\ IF model = "None"
       THEN /\ Finish(r, HTTPException(503, "Model not loaded"))
            /\ UNCHANGED <<local, invoked>>
       ELSE /\ invoked' = invoked \cup {r}
            /\ \/ /\ Finish(r, HTTPException(500, "generation failed"))
                  /\ local' = local
               \/ \E text \in Generated :
                  /\ pc' = [pc EXCEPT ![r] = "chat_insert"]
                  /\ local' = [local EXCEPT ![r].bot_response = text,
                                            ![r].timestamp = now]
                  /\ resp' = resp
    /\ UNCHANGED <<limit, now, requests, users, conversations, model, req, minted,
                   admitted, userBy, convBy>>

\* chat whose insert stores the record and then raises
chat_insertMutStoredThenRaised(r) ==
    /\ pc[r] = "chat_insert"
    /\ conversations' = Append(conversations,
            [_id |-> Len(conversations) + 1,
             user_id |-> local[r].user_id,
             user_message |-> req[r].message,
             bot_response |-> local[r].bot_response,
             timestamp |-> local[r].timestamp])
    /\ convBy' = Append(convBy, r)
    /\ \/ Finish(r, [NoResp EXCEPT !.status = 200,
                                   !.message = local[r].bot_response])
       \/ Finish(r, HTTPException(500, "insert failed"))
    /\ UNCHANGED <<limit, now, requests, users, model, req, local, minted, admitted,
                   invoked, userBy>>

\* chat that returns the reply although insert_one raised
chat_insertMutReplyAnyway(r) ==
    /\ pc[r] = "chat_insert"
    /\ \/ /\ conversations' = Append(conversations,
                [_id |-> Len(conversations) + 1,
                 user_id |-> local[r].user_id,
                 user_message |-> req[r].message,
                 bot_response |-> local[r].bot_response,
                 timestamp |-> local[r].timestamp])
          /\ convBy' = Append(convBy, r)
       \/ UNCHANGED <<conversations, convBy>>
    /\ Finish(r, [NoResp EXCEPT !.status = 200,
                                !.message = local[r].bot_response])
    /\ UNCHANGED <<limit, now, requests, users, model, req, local, minted, admitted,
                   invoked, userBy>>

\* chat, from insert_one on: the record is stored and the reply returned,
\* or the insert raises and the handler answers 500
chat_insert(r) ==
    /\ pc[r] = "chat_insert"
    /\ \/ /\ conversations' = Append(conversations,
                [_id |-> Len(conversations) + 1,
                 user_id |-> local[r].user_id,
                 user_message |-> req[r].message,
                 bot_response |-> local[r].bot_response,
                 timestamp |-> local[r].timestamp])
          /\ convBy' = Append(convBy, r)
          /\ Finish(r, [NoResp EXCEPT !.status = 200,
                                      !.message = local[r].bot_response])
       \/ /\ Finish(r, HTTPException(500, "insert failed"))
          /\ UNCHANGED <<conversations, convBy>>
    /\ UNCHANGED <<limit, now, requests, users, model, req, local, minted, admitted,
                   invoked, userBy>>

\* ------------------------------------------------------------ register

\* register with the lookup's answer ignored
register_findMutNoCheck(r) ==
    /\ pc[r] = "register_find"
    /\ pc' = [pc EXCEPT ![r] = "register_insert"]
    /\ UNCHANGED <<limit, now, requests, users, conversations, model, req, local,
                   resp, minted, admitted, invoked, userBy, convBy>>

\* register, up to the await of find_one's answer
register_find(r) ==
    /\ pc[r] = "register_find"
    /\ IF Matching(req[r].username) # {}
       THEN Finish(r, HTTPException(400, "Username already registered"))
       ELSE /\ pc' = [pc EXCEPT ![r] = "register_insert"]
            /\ resp' = resp
    /\ UNCHANGED <<limit, now, requests, users, conversations, model, req, local,
                   minted, admitted, invoked, userBy, convBy>>

\* register, from user_data on: the record is built and inserted
register_insert(r) ==
    /\ pc[r] = "register_insert"
    /\ users' = Append(users,
            [_id |-> Len(users) + 1,
             username |-> req[r].username,
             email |-> req[r].email,
             password |-> req[r].password,
             created_at |-> now])
    /\ userBy' = Append(userBy, r)
    /\ Finish(r, [NoResp EXCEPT !.status = 200,
                                !.message = "User created successfully"])
    /\ UNCHANGED <<limit, now, requests, conversations, model, req, local, minted,
                   admitted, invoked, convBy>>

\* --------------------------------------------------------------- login

\* login that tells an unknown username from a wrong password
login_responseMutTelling(user, username, password, t) ==
    IF user = 0
    THEN HTTPException(401, "Unknown username")
    ELSE IF users[user].password # password
    THEN HTTPException(401, "Incorrect username or password")
    ELSE [NoResp EXCEPT
            !.status = 200,
            !.access_token =
                jwt_encode(username, t + Minutes(ACCESS_TOKEN_EXPIRE_MINUTES))]

\* the answer of login when find_one returned `user` (0: no record)
login_response(user, username, password, t) ==
    IF user = 0 \/ users[user].password # password
    THEN HTTPException(401, "Incorrect username or password")
    ELSE [NoResp EXCEPT
            !.status = 200,
            !.access_token =
                jwt_encode(username, t + Minutes(ACCESS_TOKEN_EXPIRE_MINUTES))]

login(r) ==
    /\ pc[r] = "login"
    /\ \E user \in IF Matching(req[r].username) = {}
                   THEN {0} ELSE Matching(req[r].username) :
         LET response ==
                login_response(user, req[r].username, req[r].password, now)
         IN  /\ Finish(r, response)
             /\ minted' = IF response.status = 200
                          THEN minted \cup {[token |-> response.access_token,
                                             issued |-> now]}
                          ELSE minted
    /\ UNCHANGED <<limit, now, requests, users, conversations, model, req, local,
                   admitted, invoked, userBy, convBy>>

\* ------------------------------------------------------------- history

\* find with the user_id filter lost
FoundMutEveryone(user_id) == 1..Len(conversations)

\* db.conversations.find({"user_id": user_id})
Found(user_id) ==
    {i \in 1..Len(conversations) : conversations[i].user_id = user_id}

\* the indices whose timestamp another found record shares: the order among
\* them is the store's choice
Tied(found) ==
    {i \in found : \E j \in found :
        j # i /\ conversations[j].timestamp = conversations[i].timestamp}

\* the sort with its direction turned: .sort("timestamp", 1)
BeforeMutAscending(i, j, tie) ==
    \/ conversations[i].timestamp < conversations[j].timestamp
    \/ /\ conversations[i].timestamp = conversations[j].timestamp
       /\ tie[i] < tie[j]

\* i comes before j under .sort("timestamp", -1), ties as `tie` ranks them
Before(i, j, tie) ==
    \/ conversations[i].timestamp > conversations[j].timestamp
    \/ /\ conversations[i].timestamp = conversations[j].timestamp
       /\ tie[i] < tie[j]

\* the found records in cursor order; Before is total on them, so the
\* order is the same whatever way the store sorts
Sorted(found, tie) ==
    SortSeq(SelectSeq([k \in 1..Len(conversations) |->
                          Len(conversations) + 1 - k],
                      LAMBDA i : i \in found),
            LAMBDA i, j : Before(i, j, tie))

\* .limit(n)
Limit(s, n) == IF Len(s) <= n THEN s ELSE SubSeq(s, 1, n)

\* the dict get_history builds from a document
Entry(doc) ==
    [id |-> doc._id, user_message |-> doc.user_message,
     bot_response |-> doc.bot_response, timestamp |-> doc.timestamp]

\* the cursor of get_history, read to its end
Cursor(found, tie) ==
    Limit(Sorted(found, tie), HistoryLimit)

get_history(r) ==
    /\ pc[r] = "history"
    /\ \E found \in {Found(local[r].user_id)} :
       \E tie \in Permutations(Tied(found)) :
       \E cursor \in {Cursor(found, tie)} :
         LET history ==
                [k \in 1..Len(cursor) |-> Entry(conversations[cursor[k]])]
         IN  Finish(r, [NoResp EXCEPT !.status = 200, !.history = history])
    /\ UNCHANGED <<limit, now, requests, users, conversations, model, req, local,
                   minted, admitted, invoked, userBy, convBy>>

\* --------------------------------------------------------------- clock

\* the clock moves on to a later instant of T
Tick(T) ==
    /\ \E t \in T : t > now /\ now' = t
    /\ UNCHANGED <<limit, requests, users, conversations, model, pc, req, local,
                   resp, minted, admitted, invoked, userBy, convBy>>

\* ------------------------------------------------------ specifications

\* what a request's coroutines may do once the middleware let it through
Handle(r) ==
    \/ get_current_user_decode(r)
    \/ get_current_user_find(r)
    \/ chat_generate(r)
    \/ chat_insert(r)
    \/ register_find(r)
    \/ register_insert(r)
    \/ login(r)
    \/ get_history(r)

\* the state right after the module is loaded; the pipeline may have failed
\* to load, which leaves model = None
Init ==
    /\ limit = requests_per_minute
    /\ now = 0
    /\ requests = [c \in {} |-> <<>>]
    /\ users = <<>>
    /\ conversations = <<>>
    /\ model \in {"pipeline", "None"}
    /\ pc = [r \in Reqs |-> "new"]
    /\ req = [r \in Reqs |-> NoReq]
    /\ local = [r \in Reqs |-> NoLocal]
    /\ resp = [r \in Reqs |-> NoResp]
    /\ minted = {}
    /\ admitted = [c \in {} |-> <<>>]
    /\ invoked = {}
    /\ userBy = <<>>
    /\ convBy = <<>>

\* tokens a client can present: those login handed out, and a malformed one
Malformed == NoToken
Presentable == {m.token : m \in minted} \cup {Malformed}

Inputs ==
    {RegisterReq("10.0.0.1", "alice", e, p) :
        e \in {"alice@x.com"}, p \in {"secret", "hunter2"}}
    \cup {LoginReq("10.0.0.1", u, p) :
        u \in {"alice", "bob"}, p \in {"secret", "hunter2"}}
    \cup {ChatReq("10.0.0.1", tok, "hello") : tok \in Presentable}
    \cup {HistoryReq("10.0.0.1", tok) : tok \in Presentable}

Instants == {0, 1}

Next ==
    \/ \E r \in Reqs : \E q \in Inputs : rate_limit_middleware(r, q)
    \/ \E r \in Reqs : Handle(r)
    \/ Tick(Instants)

Spec == Init /\ [][Next]_vars

\* ------------------------------------------------ the limiter at its limit

\* The states below are reached from Init by earlier requests: alice
\* registered and logged in from 10.0.0.2 at instant 0, and 10.0.0.1 sent
\* n0 requests with a malformed token at instant 0 and n1 more at instant 1.

Alice ==
    [_id |-> 1, username |-> "alice", email |-> "alice@x.com",
     password |-> "secret", created_at |-> 0]

AliceToken == jwt_encode("alice", 0 + Minutes(ACCESS_TOKEN_EXPIRE_MINUTES))

Times(n0, n1) == [k \in 1..(n0 + n1) |-> IF k <= n0 THEN 0 ELSE 1]

Earlier ==
    {<<0, 0>>,
     <<requests_per_minute - 1, 0>>,
     <<1, requests_per_minute - 2>>,
     <<1, requests_per_minute - 1>>}

InitRate ==
    /\ limit = requests_per_minute
    /\ now = 1
    /\ \E n \in Earlier :
         requests = [c \in (IF n = <<0, 0>> THEN {} ELSE {"10.0.0.1"})
                             \cup {"10.0.0.2"} |->
                        IF c = "10.0.0.2" THEN <<0, 0>>
                        ELSE Times(n[1], n[2])]
    /\ admitted = requests
    /\ users = <<Alice>>
    /\ userBy = <<0>>
    /\ minted = {[token |-> AliceToken, issued |-> 0]}
    /\ conversations = <<>>
    /\ convBy = <<>>
    /\ model \in {"pipeline", "None"}
    /\ pc = [r \in Reqs |-> "new"]
    /\ req = [r \in Reqs |-> NoReq]
    /\ local = [r \in Reqs |-> NoLocal]
    /\ resp = [r \in Reqs |-> NoResp]
    /\ invoked = {}

InputsRate ==
    {RegisterReq("10.0.0.1", "bob", "bob@x.com", "hunter2"),
     LoginReq("10.0.0.1", "alice", "secret"),
     ChatReq("10.0.0.1", AliceToken, "hello"),
     ChatReq("10.0.0.1", Malformed, "hello"),
     HistoryReq("10.0.0.1", AliceToken),
     ChatReq("10.0.0.2", Malformed, "hello")}

InstantsRate ==
    {Seconds(WindowSeconds), Seconds(WindowSeconds) + 1}

NextRate ==
    \/ \E r \in 1..MaxRateReqs : \E q \in InputsRate :
            rate_limit_middleware(r, q)
    \/ \E r \in Reqs : Handle(r)
    \/ Tick(InstantsRate)

SpecRate == InitRate /\ [][NextRate]_vars

\* ------------------------------------------------- tokens and the clock

\* Reached from Init: alice registered from 10.0.0.2 at instant 0 and logged
\* in from there at instant 0 or 1 (half a second later).

ForeignKey == [wellformed |-> TRUE, key |-> "another_key", sub |-> "alice",
               exp |-> NoExp]
NoSubject == [wellformed |-> TRUE, key |-> SECRET_KEY, sub |-> NoSub,
              exp |-> NoExp]
UnknownUser == [wellformed |-> TRUE, key |-> SECRET_KEY, sub |-> "mallory",
                exp |-> NoExp]

InitAuth ==
    /\ limit = requests_per_minute
    /\ now \in {0, 1}
    /\ requests = [c \in {"10.0.0.2"} |-> <<0, now>>]
    /\ admitted = requests
    /\ users = <<Alice>>
    /\ userBy = <<0>>
    /\ minted = {[token |-> jwt_encode("alice",
                               now + Minutes(ACCESS_TOKEN_EXPIRE_MINUTES)),
                  issued |-> now]}
    /\ conversations = <<>>
    /\ convBy = <<>>
    /\ model \in {"pipeline", "None"}
    /\ pc = [r \in Reqs |-> "new"]
    /\ req = [r \in Reqs |-> NoReq]
    /\ local = [r \in Reqs |-> NoLocal]
    /\ resp = [r \in Reqs |-> NoResp]
    /\ invoked = {}

InputsAuth ==
    {RegisterReq("10.0.0.1", "bob", "bob@x.com", "hunter2"),
     LoginReq("10.0.0.1", "alice", "secret")}
    \cup {ChatReq("10.0.0.1", tok, "hello") :
            tok \in Presentable \cup {ForeignKey, NoSubject, UnknownUser}}
    \cup {HistoryReq("10.0.0.1", tok) : tok \in Presentable}

InstantsAuth ==
    {Minutes(ACCESS_TOKEN_EXPIRE_MINUTES) - 1,
     Minutes(ACCESS_TOKEN_EXPIRE_MINUTES),
     Minutes(ACCESS_TOKEN_EXPIRE_MINUTES) + 1}

NextAuth ==
    \/ \E r \in 1..MaxAuthReqs : \E q \in InputsAuth :
            rate_limit_middleware(r, q)
    \/ \E r \in Reqs : Handle(r)
    \/ Tick(InstantsAuth)

SpecAuth == InitAuth /\ [][NextAuth]_vars

\* ------------------------------------------------------ a long history

\* Reached from Init: alice and bob registered and logged in from 10.0.0.2
\* at instant 0; then bob chatted once and alice n times from there, one
\* chat per tick.

Bob ==
    [_id |-> 2, username |-> "bob", email |-> "bob@x.com",
     password |-> "hunter2", created_at |-> 0]

BobToken == jwt_encode("bob", 0 + Minutes(ACCESS_TOKEN_EXPIRE_MINUTES))

OldTurns(n) ==
    [k \in 1..(n + 1) |->
        [_id |-> k,
         user_id |-> IF k = 1 THEN Bob._id ELSE Alice._id,
         user_message |-> "hello",
         bot_response |-> "reply",
         timestamp |-> k]]

HistoryStart == HistoryLimit + 2

InitHistory ==
    /\ limit = requests_per_minute
    /\ now = HistoryStart
    /\ users = <<Alice, Bob>>
    /\ userBy = <<0, 0>>
    /\ minted = {[token |-> AliceToken, issued |-> 0],
                 [token |-> BobToken, issued |-> 0]}
    /\ \E n \in {0, HistoryLimit} :
         /\ conversations = OldTurns(n)
         /\ convBy = [k \in 1..(n + 1) |-> 0]
         /\ requests = [c \in {"10.0.0.2"} |->
                          <<0, 0, 0, 0>> \o [k \in 1..(n + 1) |-> k]]
    /\ admitted = requests
    /\ model = "pipeline"
    /\ pc = [r \in Reqs |-> "new"]
    /\ req = [r \in Reqs |-> NoReq]
    /\ local = [r \in Reqs |-> NoLocal]
    /\ resp = [r \in Reqs |-> NoResp]
    /\ invoked = {}

InputsHistory ==
    {ChatReq("10.0.0.1", AliceToken, "hello")}
    \cup {HistoryReq("10.0.0.1", AliceToken)}

InstantsHistory == {HistoryStart + 1}

NextHistory ==
    \/ \E r \in Reqs : \E q \in InputsHistory : rate_limit_middleware(r, q)
    \/ \E r \in Reqs : get_current_user_decode(r)
    \/ \E r \in Reqs : get_current_user_find(r)
    \/ \E r \in Reqs : chat_generate(r)
    \/ \E r \in Reqs : chat_insert(r)
    \/ \E r \in Reqs : get_history(r)
    \/ Tick(InstantsHistory)

SpecHistory == InitHistory /\ [][NextHistory]_vars

\* ------------------------------------------- a limiter of any limit

\* The state after construction, with the limiter constructed as
\* RateLimiter(requests_per_minute=n) for a small n instead of the default.

Limits == 0..MaxLimit

InitLimiter ==
    /\ limit \in Limits
    /\ now = 0
    /\ requests = [c \in {} |-> <<>>]
    /\ users = <<>>
    /\ conversations = <<>>
    /\ model = "pipeline"
    /\ pc = [r \in Reqs |-> "new"]
    /\ req = [r \in Reqs |-> NoReq]
    /\ local = [r \in Reqs |-> NoLocal]
    /\ resp = [r \in Reqs |-> NoResp]
    /\ minted = {}
    /\ admitted = [c \in {} |-> <<>>]
    /\ invoked = {}
    /\ userBy = <<>>
    /\ convBy = <<>>

InputsLimiter ==
    {ChatReq(c, Malformed, "hello") : c \in {"10.0.0.1", "10.0.0.2"}}
    \cup {LoginReq("10.0.0.1", "alice", "secret")}

InstantsLimiter ==
    {1, Seconds(WindowSeconds), Seconds(WindowSeconds) + 1}

NextLimiter ==
    \/ \E r \in Reqs : \E q \in InputsLimiter : rate_limit_middleware(r, q)
    \/ \E r \in Reqs : get_current_user_decode(r)
    \/ \E r \in Reqs : login(r)
    \/ Tick(InstantsLimiter)

SpecLimiter == InitLimiter /\ [][NextLimiter]_vars

\* ------------------------------------------------ after a full window

\* Reached from Init by earlier requests with a malformed token.  Either
\* 10.0.0.1 has just filled its window, with n0 requests at instant 0 and n1
\* at instant 1; or it filled its window at instant 0, request 1 was turned
\* away at instant 1, and 60 seconds after its first request the client made
\* n more requests, which the emptied window let in.

Refused ==
    [ChatReq("10.0.0.1", Malformed, "hello") EXCEPT !.at = 1]

Refilled(n) == [k \in 1..n |-> Seconds(WindowSeconds)]

InitRecover ==
    /\ limit = requests_per_minute
    /\ users = <<>>
    /\ userBy = <<>>
    /\ minted = {}
    /\ conversations = <<>>
    /\ convBy = <<>>
    /\ model = "pipeline"
    /\ local = [r \in Reqs |-> NoLocal]
    /\ invoked = {}
    /\ \/ /\ now = 1
          /\ \E n \in {<<1, requests_per_minute - 1>>,
                        <<requests_per_minute, 0>>} :
               requests = [c \in {"10.0.0.1"} |-> Times(n[1], n[2])]
          /\ admitted = requests
          /\ pc = [r \in Reqs |-> "new"]
          /\ req = [r \in Reqs |-> NoReq]
          /\ resp = [r \in Reqs |-> NoResp]
       \/ /\ now = Seconds(WindowSeconds)
          /\ \E n \in {requests_per_minute - 1, requests_per_minute} :
               /\ requests = [c \in {"10.0.0.1"} |-> Refilled(n)]
               /\ admitted = [c \in {"10.0.0.1"} |->
                                Times(requests_per_minute, 0) \o Refilled(n)]
          /\ pc = [r \in Reqs |-> IF r = 1 THEN "done" ELSE "new"]
          /\ req = [r \in Reqs |-> IF r = 1 THEN Refused ELSE NoReq]
          /\ resp = [r \in Reqs |->
                        IF r = 1 THEN HTTPException(429, "Too many requests")
                        ELSE NoResp]

InputsRecover ==
    {ChatReq(c, Malformed, "hello") : c \in {"10.0.0.1", "10.0.0.2"}}
    \cup {LoginReq("10.0.0.1", "alice", "secret")}

InstantsRecover ==
    {2, Seconds(WindowSeconds), Seconds(WindowSeconds) + 1,
     Seconds(WindowSeconds) + 2}

NextRecover ==
    \/ \E r \in Reqs : \E q \in InputsRecover : rate_limit_middleware(r, q)
    \/ \E r \in Reqs : get_current_user_decode(r)
    \/ \E r \in Reqs : login(r)
    \/ Tick(InstantsRecover)

SpecRecover == InitRecover /\ [][NextRecover]_vars

\* ------------------------------------------------------------- claims

Range(f) == {f[k] : k \in DOMAIN f}

\* the admissions of client c inside the 60 seconds that end at instant e
InWindow(c, e) ==
    {k \in 1..Len(admitted[c]) :
        admitted[c][k] <= e /\ e - admitted[c][k] < Seconds(WindowSeconds)}

Denied(r) == resp[r].status = 429

C3_DeniedStopsAtGate ==
    \A r \in Reqs :
        /\ Denied(r) =>
            /\ pc[r] = "done"
            /\ resp[r] = HTTPException(429, "Too many requests")
            /\ local[r] = NoLocal
            /\ r \notin invoked
            /\ r \notin Range(userBy) \cup Range(convBy)
        /\ pc[r] = "new" =>
            /\ resp[r] = NoResp /\ local[r] = NoLocal
            /\ r \notin invoked \cup Range(userBy) \cup Range(convBy)

\* C3 happens: requests were turned away on two routes, one of them a chat
\* carrying a token that authenticates
C3_Witness ==
    \E r, s \in Reqs :
        /\ Denied(r) /\ req[r].route = "chat" /\ req[r].token = AliceToken
        /\ jwt_decode(AliceToken, req[r].at).error = ""
        /\ Denied(s) /\ req[s].route \in {"register", "login", "history"}

\* the request has been through jwt.decode
Decoded(r) ==
    /\ req[r].route \in {"chat", "history"}
    /\ pc[r] \notin {"new", "authenticate"}
    /\ ~Denied(r)

\* get_current_user took the token of r: the subject was read and, once
\* looked up, a user record was found
Accepted(r) ==
    /\ Decoded(r)
    /\ local[r].username # NoSub
    /\ pc[r] # "resolve" => local[r].user_id # 0

Rejected(r) ==
    Decoded(r) /\ pc[r] = "done" /\ resp[r].status = 401

\* the token r carries cannot authenticate: it is malformed, signed with
\* another key, expired when r arrived, without a subject, or its subject
\* has no user record (records are never removed, so none now is none then)
Unauthentic(r) ==
    LET token == req[r].token
    IN  \/ ~token.wellformed
        \/ token.key # SECRET_KEY
        \/ token.exp # NoExp /\ Seconds(token.exp) <= req[r].at
        \/ token.sub = NoSub
        \/ Matching(token.sub) = {}

\* C2: the model is called and a conversation stored for a chat request
\* only once get_current_user has returned a user for it; a chat request
\* past the middleware whose token cannot authenticate is answered 401
\* "Could not validate credentials", with no model call and no record.
C2_AuthBeforeGeneration ==
    \A r \in Reqs :
        /\ (r \in invoked \/ r \in Range(convBy)) => Accepted(r)
        /\ (req[r].route = "chat" /\ Unauthentic(r) /\ ~Denied(r)) =>
            /\ r \notin invoked /\ r \notin Range(convBy)
            /\ pc[r] \in {"new", "authenticate", "resolve", "done"}
            /\ pc[r] = "done" => resp[r] = credentials_exception

\* C2 happens: a chat carrying a token login minted, expired by then, was
\* answered 401 while the model is loaded
C2_Witness ==
    \E r \in Reqs :
        /\ req[r].route = "chat" /\ model = "pipeline"
        /\ req[r].token \in {m.token : m \in minted}
        /\ Seconds(req[r].token.exp) <= req[r].at
        /\ Rejected(r)

\* the instant the exp claim of a token issued at t0 names: t0 plus the
\* lifetime, cut down to a whole second
Expiry(t0) ==
    Seconds((t0 + Minutes(ACCESS_TOKEN_EXPIRE_MINUTES)) \div TicksPerSecond)

\* C4 as claimed: a token login minted at t0 is accepted at every instant
\* before t0 + 30 min and rejected from then on, with an error other than
\* the one a malformed or wrongly signed token gets.
C4_Original ==
    \A r \in Reqs : \A m \in minted :
        (Decoded(r) /\ req[r].token = m.token) =>
            IF local[r].at < m.issued + Minutes(ACCESS_TOKEN_EXPIRE_MINUTES)
            THEN Accepted(r)
            ELSE Rejected(r) /\ resp[r] # credentials_exception

\* C4 as amended: a token login minted at t0 for an existing user is
\* accepted at every instant before the expiry it states, which is t0 + 30
\* min cut down to a whole second, whatever else happened in between; from
\* that instant on jwt.decode raises ExpiredSignatureError and
\* get_current_user answers the same 401 "Could not validate credentials"
\* as for a malformed or wrongly signed token.
C4_TokenLifetime ==
    \A r \in Reqs : \A m \in minted :
        (Decoded(r) /\ req[r].token = m.token) =>
            IF local[r].at < Expiry(m.issued)
            THEN Accepted(r)
            ELSE /\ Rejected(r)
                 /\ resp[r] = credentials_exception
                 /\ jwt_decode(req[r].token, local[r].at).error
                        = "ExpiredSignatureError"

\* C4 happens: a token was refused in the last fraction of a second of its
\* 30 minutes, and another request used it successfully before that
C4_Witness ==
    \E r, s \in Reqs : \E m \in minted :
        /\ req[r].token = m.token /\ Rejected(r)
        /\ local[r].at >= Expiry(m.issued)
        /\ local[r].at < m.issued + Minutes(ACCESS_TOKEN_EXPIRE_MINUTES)
        /\ req[s].token = m.token /\ Accepted(s) /\ pc[s] = "done"

\* C5 as claimed: no two user records have the same username.
C5_UniqueUsernames ==
    \A i, j \in 1..Len(users) :
        users[i].username = users[j].username => i = j

Registered(r) ==
    req[r].route = "register" /\ pc[r] = "done" /\ resp[r].status = 200

\* C6: when register's lookup finds a record with the username, the request
\* ends there with 400 "Username already registered" and the step leaves
\* db.users as it was; a request answered 400 has inserted no record; and
\* no step of any request changes or removes a record already stored.
C6_DuplicateRejected ==
    [][/\ \A r \in Reqs :
            (pc[r] = "register_find" /\ pc'[r] # "register_find"
                /\ Matching(req[r].username) # {}) =>
                /\ pc'[r] = "done"
                /\ resp'[r] = HTTPException(400, "Username already registered")
                /\ users' = users
       /\ \A r \in Reqs : resp'[r].status = 400 => r \notin Range(userBy')
       /\ Len(users') >= Len(users)
       /\ \A i \in 1..Len(users) : users'[i] = users[i]]_vars

\* C6 happens: a registration was refused for a username that another
\* request had registered with a different password
C6_Witness ==
    \E r, s \in Reqs :
        /\ req[r].route = "register" /\ resp[r].status = 400
        /\ Registered(s) /\ req[s].username = req[r].username
        /\ req[s].password # req[r].password
        /\ Len(users) = 1

\* C7 as claimed: a login that arrives after a register request was
\* answered with success, with that request's username and password, is
\* answered with a token whose subject is the username.
C7_LoginAfterRegister ==
    \A r, l \in Reqs :
        (/\ Registered(r) /\ r \in req[l].after
         /\ req[l].route = "login" /\ pc[l] = "done"
         /\ req[l].username = req[r].username
         /\ req[l].password = req[r].password) =>
            /\ resp[l].status = 200
            /\ resp[l].access_token.sub = req[r].username

FailedLogin(r) ==
    req[r].route = "login" /\ pc[r] = "done" /\ resp[r].status # 200

\* C8: a login for a username without a record and a login whose password
\* no record of the username has are both answered 401 "Incorrect username
\* or password" without a token, so any two failed logins get the same
\* response; and no login, failed or not, changes db.users,
\* db.conversations, the rate-limit table or the model handle.
C8_LoginFailuresAlike ==
    [][/\ \A r \in Reqs :
            (pc[r] = "login" /\ pc'[r] = "done") =>
                /\ UNCHANGED <<users, conversations, requests, model>>
                /\ (\A i \in Matching(req[r].username) :
                        users[i].password # req[r].password) =>
                      resp'[r] =
                        HTTPException(401, "Incorrect username or password")
       /\ \A r, s \in Reqs :
            (FailedLogin(r)' /\ FailedLogin(s)') => resp'[r] = resp'[s]]_vars

\* C8 happens: one login failed for a username with no record, another for
\* a username registered before it arrived, with a different password
C8_Witness ==
    \E r, s, g \in Reqs :
        /\ FailedLogin(r) /\ Matching(req[r].username) = {}
        /\ FailedLogin(s) /\ Registered(g) /\ g \in req[s].after
        /\ req[g].username = req[s].username
        /\ req[g].password # req[s].password

\* the step in which get_history answers request r
Answers(r) == pc[r] = "history" /\ pc'[r] = "done"

\* the turn of user_id stored last: with insert_one and the reply in one
\* stretch, the turn of the chat that was answered last
Newest(user_id) ==
    CHOOSE i \in Found(user_id) : \A j \in Found(user_id) : j <= i

Ids(history) == {history[k].id : k \in 1..Len(history)}

\* C9 as claimed: get_history returns the turn of the user's last answered
\* chat first, the turns in descending timestamp order, at most 50 of them;
\* stated here only for a history request that arrived after that chat was
\* answered, and only when no two turns of the user are stamped alike.
C9_Original ==
    [][\A r \in Reqs :
        (/\ Answers(r)
         /\ Found(local[r].user_id) # {}
         /\ Tied(Found(local[r].user_id)) = {}
         /\ convBy[Newest(local[r].user_id)] \in req[r].after \cup {0}) =>
            LET history == resp'[r].history
            IN  /\ Len(history) <= HistoryLimit
                /\ history[1].id = Newest(local[r].user_id)
                /\ \A k \in 1..(Len(history) - 1) :
                     history[k].timestamp >= history[k + 1].timestamp]_vars

\* C9 as amended: get_history returns min(50, stored) distinct turns of the
\* user, none of them older than a turn left out, in descending timestamp
\* order; the turn of the user's last answered chat is the first element
\* when its timestamp is greater than that of every other turn of the user
\* (a chat in flight at the same time may have stamped its turn later, and
\* among equal timestamps the order is the store's).
C9_NewestFirstByTimestamp ==
    [][\A r \in Reqs :
        Answers(r) =>
            \A history \in {resp'[r].history} :
            \A found \in {Found(local[r].user_id)} :
            \A ids \in {Ids(history)} :
                /\ resp'[r].status = 200
                /\ Len(history) =
                     IF Cardinality(found) <= HistoryLimit
                     THEN Cardinality(found) ELSE HistoryLimit
                /\ Cardinality(ids) = Len(history)
                /\ ids \subseteq found
                /\ \A k \in 1..Len(history) :
                     history[k] = Entry(conversations[history[k].id])
                /\ \A k \in 1..(Len(history) - 1) :
                     history[k].timestamp >= history[k + 1].timestamp
                /\ \A i \in found \ ids : \A k \in 1..Len(history) :
                     history[k].timestamp >= conversations[i].timestamp
                /\ found # {} =>
                     \A newest \in {Newest(local[r].user_id)} :
                        (\A j \in found \ {newest} :
                            conversations[j].timestamp <
                              conversations[newest].timestamp)
                        => history[1].id = newest]_vars

\* C9 happens: a user with more than 50 turns got 50 of them, the first
\* one the turn of a chat answered before the history request arrived
C9_Witness ==
    \E r, c \in Reqs :
        /\ req[r].route = "history" /\ pc[r] = "done" /\ resp[r].status = 200
        /\ Cardinality(Found(local[r].user_id)) > HistoryLimit
        /\ Len(resp[r].history) = HistoryLimit
        /\ c \in req[r].after /\ req[c].route = "chat"
        /\ resp[c].status = 200
        /\ convBy[resp[r].history[1].id] = c

\* C10: every turn get_history returned carries the _id of the user record
\* the request was authenticated as, and every conversation a chat stored
\* carries the _id of the user record that chat was authenticated as.
C10_OwnTurnsOnly ==
    /\ \A r \in Reqs :
        (req[r].route = "history" /\ pc[r] = "done") =>
            \A k \in 1..Len(resp[r].history) :
                LET i == resp[r].history[k].id
                IN  /\ i \in 1..Len(conversations)
                    /\ conversations[i].user_id = local[r].user_id
                    /\ convBy[i] # 0 =>
                         local[convBy[i]].user_id = local[r].user_id
    /\ \A i \in 1..Len(conversations) :
        convBy[i] # 0 =>
            /\ Accepted(convBy[i])
            /\ conversations[i].user_id = local[convBy[i]].user_id

\* C10 happens: a user got a history holding a turn of a chat of this
\* behaviour while a turn of another user is stored
C10_Witness ==
    \E r \in Reqs :
        /\ req[r].route = "history" /\ pc[r] = "done"
        /\ \E k \in 1..Len(resp[r].history) : convBy[resp[r].history[k].id] # 0
        /\ \E i \in 1..Len(conversations) :
             conversations[i].user_id # local[r].user_id

\* the chat requests that went through insert_one and were answered
Persisted ==
    {r \in Reqs : req[r].route = "chat" /\ pc[r] = "done"
                    /\ resp[r].status = 200}

\* the records stored before the behaviour began
Preloaded == {i \in 1..Len(convBy) : convBy[i] = 0}

\* C11: db.conversations is an append-only log with one record per
\* successful chat turn: after every step the records stored by requests of
\* the behaviour are as many as the chat requests answered with success,
\* each such request stored exactly one, a request answered 429, 401, 503 or
\* 500 stored none, and the step changed or removed no record already there.
C11_AppendOnlyOnePerTurn ==
    [][/\ Len(conversations') = Cardinality(Preloaded') + Cardinality(Persisted')
       /\ \A r \in Persisted' :
            Cardinality({i \in 1..Len(convBy') : convBy'[i] = r}) = 1
       /\ \A r \in Reqs :
            (pc'[r] = "done" /\ resp'[r].status \in {429, 401, 503, 500}) =>
                r \notin Range(convBy')
       /\ Len(conversations') >= Len(conversations)
       /\ \A i \in 1..Len(conversations) :
            conversations'[i] = conversations[i]]_vars

\* C11 happens: one chat stored its turn and was answered, another called
\* the model, got an exception from it and stored nothing
C11_Witness ==
    \E r, s \in Reqs :
        /\ r \in Persisted /\ r \in Range(convBy)
        /\ req[s].route = "chat" /\ s \in invoked
        /\ resp[s] = HTTPException(500, "generation failed")
        /\ Len(conversations) = 1

\* get_current_user returned a user record for r
Authenticated(r) == Accepted(r) /\ pc[r] # "resolve"

\* C12: while the model handle is None, a chat request that passed the
\* middleware and get_current_user goes no further than the model test: it
\* is answered 503 "Model not loaded", which is not the 500 of an internal
\* failure, the model is not called, no conversation is stored and the
\* response carries no message.
C12_UnavailableIs503 ==
    model = "None" =>
        /\ invoked = {}
        /\ \A i \in 1..Len(convBy) : convBy[i] = 0
        /\ \A r \in Reqs :
            (req[r].route = "chat" /\ Authenticated(r)) =>
                /\ pc[r] \in {"chat", "done"}
                /\ pc[r] = "chat" => resp[r] = NoResp
                /\ pc[r] = "done" =>
                    /\ resp[r] = HTTPException(503, "Model not loaded")
                    /\ resp[r].status # 500
                    /\ resp[r].message = ""

\* C12 happens: with the model handle None, a chat carrying a token that
\* login minted and that had not expired was answered 503
C12_Witness ==
    \E r \in Reqs :
        /\ model = "None" /\ req[r].route = "chat" /\ Authenticated(r)
        /\ req[r].token \in {m.token : m \in minted}
        /\ pc[r] = "done" /\ resp[r].status = 503

\* the step in which chat request r comes back from insert_one
Inserts(r) == pc[r] = "chat_insert" /\ pc'[r] # "chat_insert"

\* C13: when insert_one raises after the model returned a text, the chat
\* request ends with a 500, its response carries neither a message nor the
\* generated text in its detail, and db.conversations is as it was before,
\* with no record of the turn; when insert_one stores the record the reply
\* is the generated text.
C13_InsertFailureMasksReply ==
    [][\A r \in Reqs :
        Inserts(r) =>
            /\ r \in invoked /\ local[r].bot_response \in Generated
            /\ pc'[r] = "done"
            /\ IF conversations' = conversations
               THEN /\ resp'[r].status = 500
                    /\ resp'[r].message = ""
                    /\ resp'[r].detail \notin Generated
                    /\ resp'[r].access_token = NoToken
                    /\ resp'[r].history = <<>>
                    /\ r \notin Range(convBy')
               ELSE /\ resp'[r].status = 200
                    /\ resp'[r].message = local[r].bot_response
                    /\ Len(conversations') = Len(conversations) + 1
                    /\ convBy'[Len(convBy')] = r]_vars

\* C13 happens: a chat called the model, got its text, and was answered 500
\* because the insert failed; nothing is stored
C13_Witness ==
    \E r \in Reqs :
        /\ req[r].route = "chat" /\ pc[r] = "done" /\ r \in invoked
        /\ local[r].bot_response \in Generated
        /\ resp[r] = HTTPException(500, "insert failed")
        /\ conversations = <<>>

\* the admit operation as specified: instants older than now - 60 s are
\* discarded and all others counted; at the limit the answer is false and
\* now is not recorded, otherwise now is appended and the answer is true
admit(table, client_id, t) ==
    LET kept == IF client_id \in DOMAIN table
                THEN SelectSeq(table[client_id],
                               LAMBDA x : ~(x < t - Seconds(WindowSeconds)))
                ELSE <<>>
        put(seq) == [c \in DOMAIN table \cup {client_id} |->
                        IF c = client_id THEN seq ELSE table[c]]
    IN  IF Len(kept) >= requests_per_minute
        THEN [ok |-> FALSE,
              table |-> IF client_id \in DOMAIN table THEN put(kept)
                        ELSE table]
        ELSE [ok |-> TRUE, table |-> put(Append(kept, t))]

\* the step in which request r goes through the middleware's check
Checks(r) == pc[r] = "new" /\ pc'[r] # "new"

\* C14 as claimed: every call of RateLimiter.check gives the answer of the
\* specified admit operation on the same table at the same instant, a stored
\* instant exactly 60 seconds old included, and leaves the table that the
\* specified operation leaves.
C14_CheckAgreesWithAdmit ==
    [][\A r \in Reqs :
        Checks(r) =>
            \A ref \in {admit(requests, req'[r].client, now)} :
                /\ (resp'[r].status # 429) = ref.ok
                /\ requests' = ref.table]_vars

\* the slots left to client c at the present instant
Slots(table, c) ==
    IF c \in DOMAIN table
    THEN requests_per_minute - Len(Prune(table[c], now))
    ELSE requests_per_minute

\* C15: check decides and records in one stretch, whatever other requests
\* are in flight: when a call is admitted with one slot left, no slot is
\* left after it, so a request of the same client arriving at that instant
\* is turned away; and after every call the table holds, for each client,
\* every admitted instant that is still inside the window, none lost.
C15_CheckAndRecordAtomic ==
    [][/\ \A r \in Reqs :
            (Checks(r) /\ resp'[r].status # 429) =>
                \A c \in {req'[r].client} :
                    /\ Slots(requests', c) = Slots(requests, c) - 1
                    /\ Slots(requests, c) = 1 =>
                         ~check(requests', c, now).ok
       /\ \A c \in DOMAIN admitted' :
            /\ c \in DOMAIN requests'
            /\ Prune(requests'[c], now') = Prune(admitted'[c], now')]_vars

\* C15 happens: with one slot left, two requests of a client arrived at the
\* same instant, the second while the first was still being handled; the
\* first was admitted and the second turned away
C15_Witness ==
    \E r, s \in Reqs :
        /\ r < s /\ req[r].client = req[s].client /\ req[r].at = req[s].at
        /\ pc[r] \notin {"new", "done"} /\ Denied(s)
        /\ Cardinality(InWindow(req[r].client, req[r].at))
             = requests_per_minute
        /\ admitted[req[r].client][requests_per_minute] = req[r].at

\* C16 as claimed: right after every call check(client, now), admitted or
\* denied, and whatever limit the limiter was constructed with, every
\* instant t stored for that client has now - t < 60 s and the client has at
\* most `limit` instants stored.
C16_StoredWithinWindowAndLimit ==
    [][\A r \in Reqs :
        Checks(r) =>
            \A c \in {req'[r].client} :
                c \in DOMAIN requests' =>
                    /\ \A k \in 1..Len(requests'[c]) :
                         now - requests'[c][k] < Seconds(WindowSeconds)
                    /\ Len(requests'[c]) <= limit]_vars

\* a step of request r after the middleware let it through
Handles(r) == pc[r] \notin {"new", "done"} /\ pc'[r] # pc[r]

\* C17: a call of check that answers False leaves the whole table as it
\* was; a call for one client, whatever its answer, leaves the window of
\* every other client as it was and adds no client but its own; and no
\* later step of a request, the ones that end in 401, 503 or 500 included,
\* changes the table.
C17_TableFrame ==
    [][\A r \in Reqs :
        /\ Checks(r) =>
            /\ resp'[r].status = 429 => requests' = requests
            /\ DOMAIN requests' = DOMAIN requests \cup {req'[r].client}
            /\ \A b \in DOMAIN requests \ {req'[r].client} :
                 requests'[b] = requests[b]
        /\ Handles(r) => requests' = requests]_vars

\* C17 happens: a client was turned away while another client has a window
\* stored, after a request of the first client was let in and then failed
\* with 401, 503 or 500
C17_Witness ==
    \E r, s \in Reqs :
        /\ Denied(r) /\ s \in req[r].after
        /\ req[s].client = req[r].client
        /\ resp[s].status \in {401, 503, 500}
        /\ \E b \in DOMAIN requests :
             b # req[r].client /\ Len(requests[b]) > 0
        /\ Len(requests[req[r].client]) = requests_per_minute

\* C18 as claimed: a client turned away at an instant t is let in at every
\* instant from t + 60 s on, however many of its requests were turned away
\* in between.
C18_Original ==
    [][\A s \in Reqs :
        (/\ Checks(s)
         /\ \E r \in Reqs :
                /\ Denied(r) /\ req[r].client = req'[s].client
                /\ now >= req[r].at + Seconds(WindowSeconds))
        => resp'[s].status # 429]_vars

\* C18 as amended: every call made while fewer than `limit` admissions of
\* the client lie in the 60 seconds before it is let in; so a client turned
\* away at an instant t is let in at every instant from t + 60 s on at
\* which that is so, as it is when it was not let in since t, however many
\* of its requests were turned away in between.
C18_DenialRecoverable ==
    [][\A s \in Reqs :
        Checks(s) =>
            \A c \in {req'[s].client} :
                /\ (c \notin DOMAIN admitted
                     \/ Cardinality(InWindow(c, now)) < limit)
                    => resp'[s].status # 429
                /\ (\E r \in Reqs :
                        /\ Denied(r) /\ req[r].client = c
                        /\ now >= req[r].at + Seconds(WindowSeconds)
                        /\ \A k \in 1..Len(admitted[c]) :
                             admitted[c][k] <= req[r].at)
                    => resp'[s].status # 429]_vars

\* C18 happens: a client with a full window was turned away twice, the
\* second time later than the first, and let in 60 seconds after the
\* second refusal
C18_Witness ==
    \E r, d, s \in Reqs :
        /\ Denied(r) /\ Denied(d) /\ req[d].at > req[r].at
        /\ req[r].client = req[s].client /\ req[d].client = req[s].client
        /\ pc[s] # "new" /\ ~Denied(s)
        /\ req[s].at = req[d].at + Seconds(WindowSeconds)

\* the requests of client c that check let in at instant t
LetIn(c, t) ==
    {s \in Reqs : /\ pc[s] # "new" /\ ~Denied(s)
                  /\ req[s].client = c /\ req[s].at = t}

\* the request was let in and then failed: 401, 503 or 500
Failed(r) ==
    pc[r] = "done" /\ resp[r].status \in {401, 503, 500}

\* C19: for 60 seconds from its arrival, every request that check let in
\* has its instant in its client's stored window, once for each request let
\* in at that instant, whether it is still being handled, was answered with
\* success, or failed with 401, 503 or 500; a request that failed therefore
\* takes a slot exactly as one that succeeded.
C19_FailedRequestsKeepSlot ==
    \A r \in Reqs :
        (/\ pc[r] # "new" /\ ~Denied(r)
         /\ now - req[r].at < Seconds(WindowSeconds)) =>
            \A c \in {req[r].client} :
                /\ c \in DOMAIN requests
                /\ Cardinality({k \in 1..Len(requests[c]) :
                                    requests[c][k] = req[r].at})
                     >= Cardinality(LetIn(c, req[r].at))
                /\ Len(Prune(requests[c], now))
                     = Cardinality(InWindow(c, now))

\* C19 happens: a request took the last slot of its client's window and
\* failed, and a request of the client that arrived after that, inside the
\* same 60 seconds, was turned away
C19_Witness ==
    \E r, s \in Reqs :
        /\ Failed(r) /\ r \in req[s].after
        /\ req[s].client = req[r].client /\ Denied(s)
        /\ req[s].at - req[r].at < Seconds(WindowSeconds)
        /\ admitted[req[r].client][requests_per_minute] = req[r].at
        /\ Len(requests[req[r].client]) = requests_per_minute

====
